---- MODULE Spec2Model ----
(***************************************************************************)
(* role-acl: the grant store of AccessControl (src/src/AccessControl.ts)   *)
(* and the OR condition (src/unnamed/part_001, class OrCondition).         *)
(*                                                                         *)
(* Two state machines share the module:                                    *)
(*   Spec    the grant store `_grants` under setGrants, reset, extendRole  *)
(*           and removeRoles;                                              *)
(*   SpecOr  one call of OrCondition.evaluate, one step per statement and  *)
(*           per await.                                                    *)
(*                                                                         *)
(* The two classes call into CommonUtil, ArrayUtil and ConditionUtil.  The  *)
(* operators that stand for those helpers follow the specification         *)
(* document (sections 3, 4.1 and 4.2) and are marked "specification".      *)
(***************************************************************************)
EXTENDS Integers, Sequences, FiniteSets, TLC

VARIABLES
    grants,      \* AccessControl._grants: the ordered role -> role item map
    last,        \* the last call on the store: its name, arguments, outcome
    calls,       \* number of calls made on the store
    args,        \* OrCondition.evaluate: the args parameter
    context,     \* OrCondition.evaluate: the context parameter
    pc,          \* OrCondition.evaluate: position in the method body
    idx,         \* index of the for-of loop over conditions
    result,      \* the local variable result
    started,     \* indices whose ConditionUtil.evaluate call was made
    completed,   \* indices whose awaited promise resolved
    outcome      \* how the call ended: its return value or the error thrown

storeVars == <<grants, last, calls>>
orVars == <<args, context, pc, idx, result, started, completed, outcome>>
vars == <<grants, last, calls, args, context, pc, idx, result, started, completed, outcome>>

-----------------------------------------------------------------------------
(* Bounds of the model *)

\* number of role names in use
NumRoles == 3
\* longest list of roles passed to extendRole and removeRoles
MaxRoleList == 2
\* longest list of extender roles passed to extendRole
MaxExtenderList == 1
\* number of calls made on one store
MaxCalls == 4
\* longest flat list passed to setGrants
MaxFlatList == 2
\* extendRole is not taken when it would raise a score above this
MaxScore == 3
\* longest operand list of an OR condition
MaxConditions == 3

-----------------------------------------------------------------------------
(* Values *)

\* Role names, in the order Array.prototype.sort() gives them (UTF-16 code units).
AllNames == <<"a", "b", "c", "d", "e">>
Roles == {AllNames[i] : i \in 1..NumRoles}
Ord(role) == CHOOSE i \in 1..Len(AllNames) : AllNames[i] = role

Undefined == "undefined"

\* All sequences over S of length lo..hi.
SeqsOf(S, lo, hi) == UNION {[1..n -> S] : n \in lo..hi}

Range(s) == {s[i] : i \in 1..Len(s)}

-----------------------------------------------------------------------------
(* The store: a JavaScript object, i.e. a map that keeps insertion order.  *)
(* It is a sequence of role items; an item's key is its field role.        *)
(* $extend is the set of its keys: every value extendRole stores there is  *)
(* an object, so `roleItem.$extend[role]` is truthy exactly for the keys.  *)
(* A missing $extend and an empty one behave alike under line 167.         *)

EmptyStore == <<>>

hasRole(g, role) == \E k \in 1..Len(g) : g[k].role = role

getRoles(g) == [k \in 1..Len(g) |-> g[k].role]

IndexOf(g, role) == CHOOSE k \in 1..Len(g) : g[k].role = role

Item(g, role) == g[IndexOf(g, role)]

\* score of a fresh role (specification, section 3: the score sums what the
\* role inherits, and a fresh role inherits nothing)
InitialScore == 0

NewRole(role) == [role |-> role, grants |-> <<>>, score |-> InitialScore, extend |-> {}]

TheGrant == [resource |-> "video", action |-> "read", attributes |-> <<"*">>]


-----------------------------------------------------------------------------
(* CommonUtil.type and the inputs of setGrants *)

\* A flat-list record: a well-formed grant of some role, or a record that
\* lacks one of role, resource, action.
WellFormed(role) == [role |-> role, resource |-> "video", action |-> "read"]
NoRoleRecord == [role |-> Undefined, resource |-> "video", action |-> "read"]
NoResourceRecord == [role |-> "a", resource |-> Undefined, action |-> "read"]
NoActionRecord == [role |-> "a", resource |-> "video", action |-> Undefined]
FlatRecords == {WellFormed(r) : r \in Roles}
                 \cup {NoRoleRecord, NoResourceRecord, NoActionRecord}

\* What setGrants can be given.  type is CommonUtil.type(grantsObject); an
\* array carries its records in list, an object its role names in list
\* (each role with one grant), every other value carries nothing.
ArrayInput(list) == [type |-> "array", list |-> list]
ObjectInputs == {[type |-> "object", list |-> <<>>],
                 [type |-> "object", list |-> <<WellFormed("a")>>]}
OtherInputs == {[type |-> t, list |-> <<>>] : t \in {"string", "number", "null"}}
GrantsInputs == {ArrayInput(l) : l \in SeqsOf(FlatRecords, 0, MaxFlatList)}
                  \cup ObjectInputs \cup OtherInputs

\* The result of an operation on the store: the store it leaves and whether
\* it threw.
Ok(g) == [g |-> g, threw |-> FALSE]
Threw(g) == [g |-> g, threw |-> TRUE]

\* CommonUtil.commitToGrants(grants, item) (specification, 4.1): rejects a record that lacks role,
\* resource or action; otherwise creates the role when needed and appends the
\* grant to its list, in place.
commitToGrants(g, item) ==
    IF Undefined \in {item.role, item.resource, item.action}
    THEN Threw(g)
    ELSE LET g1 == IF hasRole(g, item.role) THEN g ELSE Append(g, NewRole(item.role))
             k == IndexOf(g1, item.role)
         IN  Ok([g1 EXCEPT ![k].grants = Append(@, TheGrant)])

\* CommonUtil.normalizeGrantsObject(grantsObject) (specification, 4.1): the
\* canonical role map of an object keyed by role name.
normalizeGrantsObject(input) ==
    [k \in 1..Len(input.list) |->
        [NewRole(input.list[k].role) EXCEPT !.grants = <<TheGrant>>]]

\* grantsObject.forEach(item => commitToGrants(this._grants, item)): the
\* records are committed in order and the first throw ends the loop.
RECURSIVE CommitAll(_, _, _)
CommitAll(g, list, k) ==
    IF k > Len(list) THEN Ok(g)
    ELSE LET r == commitToGrants(g, list[k])
         IN  IF r.threw THEN r ELSE CommitAll(r.g, list, k + 1)

\* AccessControl.setGrants
setGrantsOn(g, input) ==
    LET emptied == EmptyStore
    IN  IF input.type = "object" THEN Ok(normalizeGrantsObject(input))
        ELSE IF input.type = "array" THEN CommitAll(emptied, input.list, 1)
        ELSE Ok(emptied)

\* AccessControl.reset
resetOn(g) == Ok(EmptyStore)

-----------------------------------------------------------------------------
(* Role extension: CommonUtil.extendRole (specification, 4.1 and 8)         *)

\* Role expansion: every role reachable from role over $extend, role included.
RECURSIVE Expand(_, _, _)
Expand(g, frontier, seen) ==
    IF frontier = {} THEN seen
    ELSE LET next == UNION {Item(g, r).extend : r \in {x \in frontier : hasRole(g, x)}}
         IN  Expand(g, next \ (seen \cup frontier), seen \cup frontier)

Hierarchy(g, role) == Expand(g, {role}, {})

\* ArrayUtil.toStringArray on an array of role names: the array itself, with
\* its order and its repetitions.  (The specification has removeRoles work on
\* a de-duplicated list; C8 below shows that removing the repetitions changes
\* nothing.)
toStringArray(roles) == roles

\* One pair (role, extenderRole): the role is created when missing, its score
\* grows by the extender's score plus one and the extender is recorded.
ExtendOne(g, role, extender) ==
    LET g1 == IF hasRole(g, role) THEN g ELSE Append(g, NewRole(role))
        k == IndexOf(g1, role)
    IN  [g1 EXCEPT ![k].score = @ + Item(g1, extender).score + 1,
                   ![k].extend = @ \cup {extender}]

RECURSIVE ExtendAll(_, _, _, _, _)
ExtendAll(g, roles, extenders, i, j) ==
    IF i > Len(roles) THEN g
    ELSE IF j > Len(extenders) THEN ExtendAll(g, roles, extenders, i + 1, 1)
    ELSE ExtendAll(ExtendOne(g, roles[i], extenders[j]), roles, extenders, i, j + 1)

\* A pair that must be refused: the extender does not exist, or the role is
\* the extender or is reachable from it.
Refused(g, role, extender) ==
    \/ ~hasRole(g, extender)
    \/ role \in Hierarchy(g, extender)

\* extendRole that checks each pair only when it reaches it: the pairs before
\* a refused one have been applied when it throws.
RECURSIVE ExtendUntilRefused(_, _, _, _, _)
ExtendUntilRefused(g, roles, extenders, i, j) ==
    IF i > Len(roles) THEN Ok(g)
    ELSE IF j > Len(extenders) THEN ExtendUntilRefused(g, roles, extenders, i + 1, 1)
    ELSE IF Refused(g, roles[i], extenders[j]) THEN Threw(g)
    ELSE ExtendUntilRefused(ExtendOne(g, roles[i], extenders[j]),
                            roles, extenders, i, j + 1)

extendRolePairwise(g, roles, extenderRoles) ==
    ExtendUntilRefused(g, toStringArray(roles), toStringArray(extenderRoles), 1, 1)

\* CommonUtil.extendRole(grants, roles, extenderRoles)
extendRoleOn(g, roles, extenderRoles) ==
    LET rs == toStringArray(roles)
        es == toStringArray(extenderRoles)
    IN  IF \E i \in 1..Len(rs), j \in 1..Len(es) : Refused(g, rs[i], es[j])
        THEN Threw(g)
        ELSE Ok(ExtendAll(g, rs, es, 1, 1))

-----------------------------------------------------------------------------
(* AccessControl.removeRoles *)

\* Array.prototype.sort() on role names
Sort(roles) == SortSeq(roles, LAMBDA x, y : Ord(x) < Ord(y))

\* Lines 169-174, for the role item at position k: every role to remove that
\* is a key of its $extend is struck from it and its score is subtracted.
\* this._grants[role].score throws a TypeError when role is not in the store.
RECURSIVE StripItem(_, _, _, _)
StripItem(g, k, rolesToRemove, j) ==
    IF j > Len(rolesToRemove) THEN Ok(g)
    ELSE LET role == rolesToRemove[j]
         IN  IF role \in g[k].extend
             THEN IF ~hasRole(g, role) THEN Threw(g)
                  ELSE StripItem([g EXCEPT ![k].score = @ - Item(g, role).score,
                                           ![k].extend = @ \ {role}],
                                 k, rolesToRemove, j + 1)
             ELSE StripItem(g, k, rolesToRemove, j + 1)

\* this._each(...), lines 166-176: the role items in key order (eachKey
\* visits Object.keys(this._grants), i.e. insertion order).
RECURSIVE StripAll(_, _, _)
StripAll(g, rolesToRemove, k) ==
    IF k > Len(g) THEN Ok(g)
    ELSE LET r == StripItem(g, k, rolesToRemove, 1)
         IN  IF r.threw THEN r ELSE StripAll(r.g, rolesToRemove, k + 1)

\* Lines 177-179: delete this._grants[role] for every role to remove.
DeleteRoles(g, rolesToRemove) ==
    SelectSeq(g, LAMBDA item : item.role \notin Range(rolesToRemove))

\* removeRoles that leaves the list unsorted and, in each role item, stops at
\* the first role it strikes from $extend.
RECURSIVE StripFirst(_, _, _, _)
StripFirst(g, k, rolesToRemove, j) ==
    IF j > Len(rolesToRemove) THEN Ok(g)
    ELSE LET role == rolesToRemove[j]
         IN  IF role \in g[k].extend
             THEN IF ~hasRole(g, role) THEN Threw(g)
                  ELSE Ok([g EXCEPT ![k].score = @ - Item(g, role).score,
                                    ![k].extend = @ \ {role}])
             ELSE StripFirst(g, k, rolesToRemove, j + 1)

RECURSIVE StripFirstAll(_, _, _)
StripFirstAll(g, rolesToRemove, k) ==
    IF k > Len(g) THEN Ok(g)
    ELSE LET r == StripFirst(g, k, rolesToRemove, 1)
         IN  IF r.threw THEN r ELSE StripFirstAll(r.g, rolesToRemove, k + 1)

removeRolesFirstMatch(g, roles) ==
    LET rolesToRemove == toStringArray(roles)
        r == StripFirstAll(g, rolesToRemove, 1)
    IN  IF r.threw THEN r ELSE Ok(DeleteRoles(r.g, rolesToRemove))

\* removeRoles with its two loops in the other order: the roles are deleted
\* first and struck from every $extend afterwards.
removeRolesDeleteFirst(g, roles) ==
    LET rolesToRemove == Sort(toStringArray(roles))
    IN  StripAll(DeleteRoles(g, rolesToRemove), rolesToRemove, 1)

\* removeRoles that deletes the roles and leaves every $extend as it is.
removeRolesKeepExtend(g, roles) ==
    Ok(DeleteRoles(g, Sort(toStringArray(roles))))

removeRolesOn(g, roles) ==
    LET rolesToRemove == Sort(toStringArray(roles))
        r == StripAll(g, rolesToRemove, 1)
    IN  IF r.threw THEN r ELSE Ok(DeleteRoles(r.g, rolesToRemove))

-----------------------------------------------------------------------------
(* OrCondition.evaluate(args, context)                                      *)

\* A JavaScript value as evaluate sees it: its CommonUtil.type, whether it is
\* truthy, and, for an array or an object, the sub-conditions it holds.  A
\* sub-condition is named by what ConditionUtil.evaluate does with it:
\* resolve to true, resolve to false, or reject.
Conditions == {"true", "false", "reject"}

Value(type, truthy, items) == [type |-> type, truthy |-> truthy, items |-> items]

UndefinedValue == Value("undefined", FALSE, <<>>)
NullValue == Value("null", FALSE, <<>>)
\* 0 and 5, "" and "x", false and true
Scalars == {Value(t, b, <<>>) : t \in {"number", "string", "boolean"}, b \in BOOLEAN}
\* every array is truthy, the empty one too
Arrays == {Value("array", TRUE, l) : l \in SeqsOf(Conditions, 0, MaxConditions)}
\* a single condition object
Objects == {Value("object", TRUE, <<c>>) : c \in Conditions}

ArgsValues == {UndefinedValue, NullValue} \cup Scalars \cup Arrays \cup Objects
\* no context, null, or a context object
ContextValues == {"undefined", "null", "object"}

\* !v in a language where the empty array is falsy
NotOrEmpty(v) == ~v.truthy \/ (v.type = "array" /\ v.items = <<>>)

\* !v
Not(v) == ~v.truthy
NotContext(c) == c \in {"undefined", "null"}

\* ArrayUtil.toArray (specification, 4.2): the sub-conditions of an array, or
\* the one sub-condition an object is
toArray(v) == v.items

\* The checks of lines 15-25 with the context test first.
EntryContextFirst(a, c) ==
    IF NotContext(c) THEN "return false"
    ELSE IF Not(a) THEN "return true"
    ELSE IF a.type # "array" /\ a.type # "object" THEN "throw"
    ELSE "loop"

\* Lines 15-25: what evaluate does before the loop.
Entry(a, c) ==
    IF Not(a) THEN "return true"
    ELSE IF NotContext(c) THEN "return false"
    ELSE IF a.type # "array" /\ a.type # "object" THEN "throw"
    ELSE "loop"

\* `await ... || result`: the right operand of line 31 evaluated first
EvaluatesAlways(r) == TRUE

\* Line 31, `result || await ...`: the right operand is evaluated only when
\* the left one is falsy.
EvaluatesRight(r) == ~r

OrIdle ==
    /\ args = UndefinedValue
    /\ context = "undefined"
    /\ pc = "idle"
    /\ idx = 0
    /\ result = FALSE
    /\ started = {}
    /\ completed = {}
    /\ outcome = "none"

\* a call of evaluate
OrCall ==
    /\ pc = "idle"
    /\ args' \in ArgsValues
    /\ context' \in ContextValues
    /\ pc' = "entry"
    /\ UNCHANGED <<idx, result, started, completed, outcome>>

\* lines 15-29
OrEntry ==
    /\ pc = "entry"
    /\ LET e == Entry(args, context)
       IN  \/ /\ e = "return true"
              /\ pc' = "returned" /\ outcome' = "true"
              /\ UNCHANGED <<idx, result>>
           \/ /\ e = "return false"
              /\ pc' = "returned" /\ outcome' = "false"
              /\ UNCHANGED <<idx, result>>
           \/ /\ e = "throw"
              /\ pc' = "threw" /\ outcome' = "AccessControlError"
              /\ UNCHANGED <<idx, result>>
           \/ /\ e = "loop"
              /\ pc' = "loop" /\ idx' = 1 /\ result' = FALSE
              /\ UNCHANGED outcome
    /\ UNCHANGED <<args, context, started, completed>>

\* line 31, result falsy: ConditionUtil.evaluate(condition, context) is called
\* and evaluate suspends on its promise
OrStart ==
    /\ pc = "loop"
    /\ idx <= Len(toArray(args))
    /\ EvaluatesRight(result)
    /\ started' = started \cup {idx}
    /\ pc' = "await"
    /\ UNCHANGED <<args, context, idx, result, completed, outcome>>

\* line 31, result truthy: the call is not made
OrSkip ==
    /\ pc = "loop"
    /\ idx <= Len(toArray(args))
    /\ ~EvaluatesRight(result)
    /\ idx' = idx + 1
    /\ UNCHANGED <<args, context, pc, result, started, completed, outcome>>

\* line 31, the awaited promise settles: its value is assigned to result, or
\* its rejection is thrown out of evaluate
OrResume ==
    /\ pc = "await"
    /\ LET c == toArray(args)[idx]
       IN  \/ /\ c = "reject"
              /\ pc' = "threw" /\ outcome' = "rejected"
              /\ UNCHANGED <<idx, result, completed>>
           \/ /\ c # "reject"
              /\ result' = (c = "true")
              /\ completed' = completed \cup {idx}
              /\ idx' = idx + 1
              /\ pc' = "loop"
              /\ UNCHANGED outcome
    /\ UNCHANGED <<args, context, started>>

\* line 33
OrReturn ==
    /\ pc = "loop"
    /\ idx > Len(toArray(args))
    /\ pc' = "returned"
    /\ outcome' = IF result THEN "true" ELSE "false"
    /\ UNCHANGED <<args, context, idx, result, started, completed>>

NextOr ==
    \/ OrCall /\ UNCHANGED storeVars
    \/ OrEntry /\ UNCHANGED storeVars
    \/ OrStart /\ UNCHANGED storeVars
    \/ OrSkip /\ UNCHANGED storeVars
    \/ OrResume /\ UNCHANGED storeVars
    \/ OrReturn /\ UNCHANGED storeVars

-----------------------------------------------------------------------------
(* The store as a state machine *)

RoleLists == SeqsOf(Roles, 1, MaxRoleList)
ExtenderLists == SeqsOf(Roles, 1, MaxExtenderList)

\* The record of a call: the method, the type of setGrants' argument, the
\* role lists of extendRole and removeRoles, and whether the call threw.
\* stripped is a history field: the pairs (role, extender) with extender in
\* the list and in the role's $extend when removeRoles was called.
NoCall == [op |-> "new", type |-> "object", roles |-> <<>>, extenders |-> <<>>,
           threw |-> FALSE, stripped |-> {}]

Extending(g, roles) ==
    UNION {{<<g[k].role, e>> : e \in g[k].extend \cap Range(roles)} : k \in 1..Len(g)}

RolesOf(g) == Range(getRoles(g))

\* new AccessControl(): the constructor's default argument is {}.
StoreInit ==
    /\ grants = setGrantsOn(EmptyStore, [type |-> "object", list |-> <<>>]).g
    /\ last = NoCall
    /\ calls = 0

CallSetGrants ==
    \E input \in GrantsInputs :
        LET r == setGrantsOn(grants, input)
        IN  /\ grants' = r.g
            /\ last' = [NoCall EXCEPT !.op = "setGrants", !.type = input.type,
                                      !.threw = r.threw]

CallReset ==
    /\ grants' = resetOn(grants).g
    /\ last' = [NoCall EXCEPT !.op = "reset"]

CallExtendRole ==
    \E roles \in RoleLists, extenders \in ExtenderLists :
        LET r == extendRoleOn(grants, roles, extenders)
        IN  /\ \A k \in 1..Len(r.g) : r.g[k].score <= MaxScore
            /\ grants' = r.g
            /\ last' = [NoCall EXCEPT !.op = "extendRole", !.roles = roles,
                                      !.extenders = extenders, !.threw = r.threw]

CallRemoveRoles ==
    \E roles \in RoleLists :
        LET r == removeRolesOn(grants, roles)
        IN  /\ \A k \in 1..Len(r.g) : r.g[k].score >= -MaxScore
            /\ grants' = r.g
            /\ last' = [NoCall EXCEPT !.op = "removeRoles", !.roles = roles,
                                      !.threw = r.threw,
                                      !.stripped = Extending(grants, roles)]

Init == StoreInit /\ OrIdle


Counted == calls < MaxCalls /\ calls' = calls + 1

Next ==
    \/ CallSetGrants /\ Counted /\ UNCHANGED orVars
    \/ CallReset /\ Counted /\ UNCHANGED orVars
    \/ CallExtendRole /\ Counted /\ UNCHANGED orVars
    \/ CallRemoveRoles /\ Counted /\ UNCHANGED orVars

Spec == Init /\ [][Next]_vars

SpecOr == Init /\ [][NextOr]_vars

-----------------------------------------------------------------------------
(* Properties of the store *)

\* the roles a role inherits grants from: everything reachable over $extend
Inherited(g, role) == Hierarchy(g, role) \ {role}

\* a role extends itself, directly or transitively
Cyclic(g) == \E k \in 1..Len(g) : \E e \in g[k].extend : g[k].role \in Hierarchy(g, e)

\* the pairs (role, extender) applied to g would make a role extend itself
WouldCycle(g, roles, extenders) ==
    /\ \A j \in 1..Len(extenders) : hasRole(g, extenders[j])
    /\ Cyclic(ExtendAll(g, roles, extenders, 1, 1))

C2_RemoveRolesStripsAndDeletes ==
    [][last'.op = "removeRoles" =>
         LET R == Range(last'.roles)
         IN  /\ ~last'.threw
             /\ \A r \in R : ~hasRole(grants', r) /\ r \notin RolesOf(grants')
             /\ \A k \in 1..Len(grants') :
                    /\ grants'[k].extend \cap R = {}
                    /\ Inherited(grants', grants'[k].role) \cap R = {}
                    /\ hasRole(grants, grants'[k].role)
                    /\ grants'[k].grants = Item(grants, grants'[k].role).grants
             /\ getRoles(grants') = SelectSeq(getRoles(grants), LAMBDA r : r \notin R)]_vars

\* C2, the case: a role without grants of its own extended the removed role.
C2_Witness ==
    /\ last.op = "removeRoles" /\ ~last.threw
    /\ \E k \in 1..Len(grants) :
          /\ \E b \in Range(last.roles) : <<grants[k].role, b>> \in last.stripped
          /\ grants[k].grants = <<>>
          /\ grants[k].extend = {}

\* C3: setGrants throws for every input that is neither an object nor a list.
C3_SetGrantsRejectsOtherTypes ==
    (last.op = "setGrants" /\ last.type \notin {"object", "array"}) => last.threw

\* C4: a setGrants that fails on a record of a flat list leaves either the
\* prior store or the empty store, never the grants of the records before it.
C4_SetGrantsNoPartialSuccess ==
    [][(last'.op = "setGrants" /\ last'.type = "array" /\ last'.threw)
          => (grants' = grants \/ grants' = EmptyStore)]_vars

\* C8: removeRoles gives the same store for any two role lists that hold the
\* same set of names, whatever their order and repetitions.
C8_RemoveRolesOrderIndependent ==
    [][last'.op = "removeRoles" =>
         \A other \in RoleLists :
             Range(other) = Range(last'.roles)
                 => removeRolesOn(grants, other) = [g |-> grants', threw |-> last'.threw]]_vars

\* C8, the case: the list names two roles out of sort order and a role that
\* extended both of them remains.
C8_Witness ==
    /\ last.op = "removeRoles"
    /\ Len(last.roles) = 2
    /\ Ord(last.roles[1]) > Ord(last.roles[2])
    /\ \E r \in RolesOf(grants) :
          {<<r, last.roles[1]>>, <<r, last.roles[2]>>} \subseteq last.stripped

\* C10: for roles A and B in the store, extendRole(A, B) followed by
\* removeRoles([B]) leaves A's score as it was before extendRole.
C10_ScoreRoundTrip ==
    \A A \in RolesOf(grants), B \in RolesOf(grants) :
        LET e == extendRoleOn(grants, <<A>>, <<B>>)
            r == removeRolesOn(e.g, <<B>>)
        IN  ~e.threw => (~r.threw /\ Item(r.g, A).score = Item(grants, A).score)

\* every key of every $extend is a role of the store
NoDangling(g) == \A k \in 1..Len(g) : g[k].extend \subseteq RolesOf(g)

\* C11: after any sequence of calls on a store that started empty, successful
\* or failed, every role named in some role's $extend is a role of the store;
\* so removeRoles finds this._grants[role] whenever it adjusts a score: the
\* last removeRoles did not throw and none that could follow would.
C11_ExtendNamesOnlyStoredRoles ==
    /\ NoDangling(grants)
    /\ last.op = "removeRoles" => ~last.threw
    /\ \A roles \in RoleLists : ~removeRolesOn(grants, roles).threw

\* C11, the case: removeRoles adjusted a score and struck a key, and a role
\* that still extends another one remains.
C11_Witness ==
    /\ last.op = "removeRoles" /\ ~last.threw
    /\ \E p \in last.stripped : p[1] \in RolesOf(grants)
    /\ \E k \in 1..Len(grants) : grants[k].extend # {}

-----------------------------------------------------------------------------
(* Properties of OrCondition.evaluate *)

Ended == pc \in {"returned", "threw"}

NoArgs == args \in {UndefinedValue, NullValue}

\* C5: with a context and an array of sub-conditions, evaluate returns true if
\* and only if at least one sub-condition evaluates to true, so false for the
\* empty array; it throws only when a sub-condition rejects.
C5_OrIsDisjunction ==
    (Ended /\ args.type = "array" /\ context = "object") =>
        /\ pc = "returned" =>
              outcome = (IF \E i \in 1..Len(args.items) : args.items[i] = "true"
                         THEN "true" ELSE "false")
        /\ pc = "threw" => \E i \in 1..Len(args.items) : args.items[i] = "reject"

\* C5, the case: the empty array with a context returns false.
C5_Witness ==
    /\ pc = "returned" /\ context = "object"
    /\ args.type = "array" /\ args.items = <<>>
    /\ outcome = "false"

\* C6 as stated: with no args, evaluate returns true when no context is
\* supplied and false when one is.
C6_NoArgsDependsOnContext ==
    (Ended /\ NoArgs) =>
        /\ context = "undefined" => (pc = "returned" /\ outcome = "true")
        /\ context = "object" => (pc = "returned" /\ outcome = "false")

\* C6: with no args (absent or null), evaluate returns true whether or not a
\* context is supplied.
C6_NoArgsReturnsTrue ==
    (Ended /\ NoArgs) => (pc = "returned" /\ outcome = "true")

\* C6, the case: null args with a context object.
C6_Witness ==
    /\ pc = "returned" /\ args = NullValue /\ context = "object"
    /\ outcome = "true"

\* C7: evaluate throws an AccessControlError for every scalar args, with or
\* without a context, and never returns a boolean for it.
C7_ScalarArgsThrow ==
    (Ended /\ args \in Scalars) => (pc = "threw" /\ outcome = "AccessControlError")

\* the sub-conditions up to and including the first that evaluates to true:
\* all of them when none does
UpToFirstTrue(items) ==
    {i \in 1..Len(items) : \A j \in 1..(i - 1) : items[j] # "true"}

=============================================================================
